---- MODULE Spec2Model ----
(***************************************************************************)
(* The /crawl handler of the Mezzofy SME content crawler (src/main.py)     *)
(* as a state machine.  Strings are sequences of tokens, so that           *)
(* urlparse, str.endswith, str.strip, str.startswith and urljoin are       *)
(* computed on the text of a URL and not assumed.  An Optional value is a  *)
(* sequence of length 0 (None) or 1.                                       *)
(***************************************************************************)
EXTENDS Integers, Sequences, FiniteSets, TLC

VARIABLES request, pc, start_url, max_pages, to_visit, visited, saved,
          current, soup, page_model, db, hist, result

vars == <<request, pc, start_url, max_pages, to_visit, visited, saved,
          current, soup, page_model, db, hist, result>>

\* ---------------------------------------------------------------- bounds
\* largest max_pages a request carries
MaxPages == 2
\* largest number of anchors on one fetched page
MaxLinks == 2

\* ------------------------------------------------------- program constants
BASE_DOMAIN == <<"https", "://", "www", ".", "mezzofy.com">>

KEYWORDS ==
  {"sme", "smb", "pricing", "features", "merchant", "e-commerce", "ecommerce",
   "pos", "coupon", "loyalty", "reward", "subscription", "payment", "api", "docs"}

\* pydantic's HttpUrl rejects a URL of more than 2083 characters
HttpUrlMaxLen == 2083

None == <<>>
Some(x) == <<x>>

\* ------------------------------------------------------------ the inputs
U_features == <<"https", "://", "www", ".", "mezzofy.com", "/", "features">>
U_external == <<"https", "://", "external.com">>
U_not      == <<"https", "://", "not", "mezzofy.com">>
U_evilpath == <<"https", "://", "evil.com", "/", "mezzofy.com">>
U_evilhost == <<"https", "://", "mezzofy.com", ".", "evil.com">>
U_ftp      == <<"ftp", "://", "www", ".", "mezzofy.com">>
U_bracket  == <<"https", "://", "[", "mezzofy.com">>
U_long     == <<"https", "://", "www", ".", "mezzofy.com", "/", "?q=LONG">>

\* the start_url values a request may carry: unspecified, empty, or a string
StartUrls ==
  {None, Some(<<>>), Some(BASE_DOMAIN), Some(U_not), Some(U_external),
   Some(U_evilpath), Some(U_evilhost), Some(U_ftp), Some(U_bracket)}

MaxPagesValues == (0 - 1)..MaxPages

\* the href attributes an anchor may carry
Hrefs ==
  {<<"/", "features">>, BASE_DOMAIN, U_external, <<" ", "#top">>,
   <<"mailto:", "hi@mezzofy.com">>, <<"/", "?q=LONG">>}

LinkLists == UNION {[1..n -> Hrefs] : n \in 0..MaxLinks}

Texts == {<<"hello">>, <<"Mezzofy", "Pricing", "coupon">>}

\* what BeautifulSoup(resp.text) can be: the visible text and the anchors
Soups == [text : Texts, links : LinkLists]

\* --------------------------------------------------------- str operations
EndsWith(s, suf) ==
  Len(s) >= Len(suf) /\ SubSeq(s, Len(s) - Len(suf) + 1, Len(s)) = suf

RECURSIVE LStrip(_)
LStrip(s) == IF s # <<>> /\ Head(s) = " " THEN LStrip(Tail(s)) ELSE s

RECURSIVE RStrip(_)
RStrip(s) ==
  IF s # <<>> /\ s[Len(s)] = " " THEN RStrip(SubSeq(s, 1, Len(s) - 1)) ELSE s

Strip(s) == RStrip(LStrip(s))

StartsWithHash(s) == s # <<>> /\ Head(s) \in {"#top"}
StartsWithMailto(s) == s # <<>> /\ Head(s) = "mailto:"

Lower(tok) ==
  CASE tok = "Pricing" -> "pricing"
    [] tok = "Mezzofy" -> "mezzofy"
    [] OTHER -> tok

\* kw in text, for a lower-cased text
Contains(text, kw) == \E i \in 1..Len(text) : Lower(text[i]) = kw

TokLen(tok) ==
  CASE tok = "?q=LONG" -> 2100
    [] tok \in {"mezzofy.com"} -> 11
    [] tok \in {"external.com"} -> 12
    [] tok \in {"features", "evil.com"} -> 8
    [] tok \in {"https"} -> 5
    [] tok \in {"://", "www", "not", "ftp"} -> 3
    [] OTHER -> 1

RECURSIVE StrLen(_)
StrLen(s) == IF s = <<>> THEN 0 ELSE TokLen(Head(s)) + StrLen(Tail(s))

\* ------------------------------------------------------------ urllib.parse
HasAuthority(url) == Len(url) >= 2 /\ url[2] = "://"

SchemeOf(url) ==
  IF HasAuthority(url) THEN url[1]
  ELSE IF StartsWithMailto(url) THEN "mailto" ELSE ""

RECURSIVE UpToPath(_)
UpToPath(s) ==
  IF s = <<>> \/ Head(s) \in {"/", "?q=LONG", "#top"} THEN <<>>
  ELSE <<Head(s)>> \o UpToPath(Tail(s))

NetlocOf(url) ==
  IF HasAuthority(url) THEN UpToPath(SubSeq(url, 3, Len(url))) ELSE <<>>

\* urlparse raises ValueError("Invalid IPv6 URL") on an unmatched bracket
ParseRaises(url) ==
  LET n == NetlocOf(url)
  IN  (\E i \in 1..Len(n) : n[i] = "[") /\ ~(\E i \in 1..Len(n) : n[i] = "]")

urljoin(base, href) ==
  IF href = <<>> THEN base
  ELSE IF SchemeOf(href) # "" THEN href
  ELSE IF Head(href) = "/" THEN <<base[1], "://">> \o NetlocOf(base) \o href
  ELSE base \o href

\* ------------------------------------------------------------- the helpers
is_valid_mezzofy_url(url) ==
  IF ParseRaises(url) THEN FALSE
  ELSE EndsWith(NetlocOf(url), <<"mezzofy.com">>)
       /\ SchemeOf(url) \in {"http", "https"}

\* Page(url=...) validates url as an HttpUrl and raises when it is not one
PageUrlValid(url) ==
  SchemeOf(url) \in {"http", "https"} /\ NetlocOf(url) # <<>>
  /\ StrLen(url) <= HttpUrlMaxLen

extract_info(url, s) ==
  [url |-> url,
   keywords_matched |-> {kw \in KEYWORDS : Contains(s.text, kw)}]

Truthy(opt) == opt # None /\ opt[1] # <<>>

InQueue(q, u) == \E i \in 1..Len(q) : q[i] = u

Enqueueable_AnyDomain(absolute, vis, q) ==
  \E url \in {absolute} : \E queue \in {q} :
    url \notin vis /\ ~InQueue(queue, url)

Enqueueable_NoVisitedCheck(absolute, vis, q) ==
  \E url \in {absolute} : \E queue \in {q} :
    is_valid_mezzofy_url(url) /\ ~InQueue(queue, url)

\* line 115; url and queue name the values of the two arguments
Enqueueable(absolute, vis, q) ==
  \E url \in {absolute} : \E queue \in {q} :
    is_valid_mezzofy_url(url) /\ url \notin vis /\ ~InQueue(queue, url)

SkippedHref_None(href) == FALSE

\* lines 112-113
SkippedHref(href) == StartsWithHash(href) \/ StartsWithMailto(href)

\* the for loop with break where the code has continue
Discover_BreakOnSkipped(links, cur, vis, q) ==
  LET skipped == {k \in 1..Len(links) : SkippedHref(Strip(links[k]))}
      n == IF skipped = {} THEN Len(links)
           ELSE (CHOOSE k \in skipped : \A m \in skipped : k <= m) - 1
      after[i \in 0..n] ==
        IF i = 0 THEN q
        ELSE LET absolute == urljoin(cur, Strip(links[i]))
             IN  IF Enqueueable(absolute, vis, after[i - 1])
                 THEN Append(after[i - 1], absolute)
                 ELSE after[i - 1]
  IN  after[n]

\* the for loop over soup.find_all("a", href=True): after[i] is to_visit
\* once the first i anchors are handled
Discover(links, cur, vis, q) ==
  LET after[i \in 0..Len(links)] ==
        IF i = 0 THEN q
        ELSE LET href == Strip(links[i])
                 absolute == urljoin(cur, href)
             IN  IF SkippedHref(href) THEN after[i - 1]
                 ELSE IF Enqueueable(absolute, vis, after[i - 1])
                      THEN Append(after[i - 1], absolute)
                      ELSE after[i - 1]
  IN  after[Len(links)]

VisitedAdd_Forgotten(vis, u) == vis

\* line 93
VisitedAdd(vis, u) == vis \cup {u}

LoopCondition_NoBudget(q, vis, n) == q # <<>>

LoopCondition_OffByOne(q, vis, n) == q # <<>> /\ Cardinality(vis) <= n

\* line 89
LoopCondition(q, vis, n) == q # <<>> /\ Cardinality(vis) < n

ShouldSave_Always(pm) == TRUE

\* line 101
ShouldSave(pm) == pm.keywords_matched # {}

\* ------------------------------------------------------------------ state
\* request is the POST /crawl body on its way to the handler; the handler
\* reads req.start_url once (line 81) and max_pages in the loop test
Init ==
  /\ request \in {Some(r) : r \in [start_url : StartUrls, max_pages : MaxPagesValues]}
  /\ pc = "start"
  /\ start_url = None
  /\ max_pages = 0
  /\ to_visit = <<>>
  /\ visited = {}
  /\ saved = 0
  /\ current = None
  /\ soup = None
  /\ page_model = None
  /\ db = <<>>
  /\ hist = <<>>
  /\ result = None

StartOf_NoneOnly(r) ==
  IF r.start_url # None THEN r.start_url[1] ELSE BASE_DOMAIN

\* line 81: req.start_url or BASE_DOMAIN
StartOf(r) == IF Truthy(r.start_url) THEN r.start_url[1] ELSE BASE_DOMAIN

\* lines 81-83: the start URL is not a mezzofy URL
RejectStart ==
  /\ pc = "start"
  /\ ~is_valid_mezzofy_url(StartOf(request[1]))
  /\ request' = None
  /\ start_url' = Some(StartOf(request[1]))
  /\ max_pages' = request[1].max_pages
  /\ pc' = "http400"
  /\ UNCHANGED <<to_visit, visited, saved, current, soup, page_model,
                 db, hist, result>>

BeginCrawl_Unchecked ==
  /\ pc = "start"
  /\ request' = None
  /\ start_url' = Some(StartOf(request[1]))
  /\ max_pages' = request[1].max_pages
  /\ to_visit' = <<StartOf(request[1])>>
  /\ visited' = {}
  /\ saved' = 0
  /\ pc' = "loop"
  /\ UNCHANGED <<current, soup, page_model, db, hist, result>>

BeginCrawl_ResumesFromStorage ==
  /\ pc = "start"
  /\ is_valid_mezzofy_url(StartOf(request[1]))
  /\ request' = None
  /\ start_url' = Some(StartOf(request[1]))
  /\ max_pages' = request[1].max_pages
  /\ to_visit' = <<StartOf(request[1])>>
  /\ visited' = {db[j].url : j \in 1..Len(db)}
  /\ saved' = 0
  /\ pc' = "loop"
  /\ UNCHANGED <<current, soup, page_model, db, hist, result>>

\* lines 81-87
BeginCrawl ==
  /\ pc = "start"
  /\ is_valid_mezzofy_url(StartOf(request[1]))
  /\ request' = None
  /\ start_url' = Some(StartOf(request[1]))
  /\ max_pages' = request[1].max_pages
  /\ to_visit' = <<StartOf(request[1])>>
  /\ visited' = {}
  /\ saved' = 0
  /\ pc' = "loop"
  /\ UNCHANGED <<current, soup, page_model, db, hist, result>>

\* line 89 false, line 118
Return ==
  /\ pc = "loop"
  /\ ~LoopCondition(to_visit, visited, max_pages)
  /\ result' = Some([visited |-> Cardinality(visited), saved |-> saved])
  /\ pc' = "done"
  /\ UNCHANGED <<request, start_url, max_pages, to_visit, visited, saved, current, soup,
                 page_model, db, hist>>

PopAndMark_Lifo ==
  /\ pc = "loop"
  /\ LoopCondition(to_visit, visited, max_pages)
  /\ current' = Some(to_visit[Len(to_visit)])
  /\ to_visit' = SubSeq(to_visit, 1, Len(to_visit) - 1)
  /\ soup' = None
  /\ page_model' = None
  /\ IF to_visit[Len(to_visit)] \in visited
     THEN UNCHANGED <<visited, hist, pc>>
     ELSE /\ visited' = VisitedAdd(visited, to_visit[Len(to_visit)])
          /\ hist' = Append(hist, [url |-> to_visit[Len(to_visit)],
                                   fetch |-> "pending", matched |-> FALSE,
                                   insert |-> "none", queued |-> <<>>])
          /\ pc' = "fetch"
  /\ UNCHANGED <<request, start_url, max_pages, saved, db, result>>

\* lines 89-93
PopAndMark ==
  /\ pc = "loop"
  /\ LoopCondition(to_visit, visited, max_pages)
  /\ current' = Some(Head(to_visit))
  /\ to_visit' = Tail(to_visit)
  /\ soup' = None
  /\ page_model' = None
  /\ IF Head(to_visit) \in visited
     THEN UNCHANGED <<visited, hist, pc>>
     ELSE /\ visited' = VisitedAdd(visited, Head(to_visit))
          /\ hist' = Append(hist, [url |-> Head(to_visit), fetch |-> "pending",
                                   matched |-> FALSE, insert |-> "none",
                                   queued |-> <<>>])
          /\ pc' = "fetch"
  /\ UNCHANGED <<request, start_url, max_pages, saved, db, result>>

SetLast(h, f, v) == [h EXCEPT ![Len(h)] = [@ EXCEPT ![f] = v]]

FetchFail_Propagates ==
  /\ pc = "fetch"
  /\ hist' = SetLast(hist, "fetch", "failed")
  /\ pc' = "http500"
  /\ UNCHANGED <<request, start_url, max_pages, to_visit, visited, saved,
                 current, soup, page_model, db, result>>

\* lines 95-97 with fetch_page returning None (lines 48-49, 51-52)
FetchFail ==
  /\ pc = "fetch"
  /\ soup' = None
  /\ current' = None
  /\ hist' = SetLast(hist, "fetch", "failed")
  /\ pc' = "loop"
  /\ UNCHANGED <<request, start_url, max_pages, to_visit, visited, saved, page_model, db,
                 result>>

\* line 95 with fetch_page returning a document (line 50)
FetchOk ==
  /\ pc = "fetch"
  /\ \E s \in Soups : soup' = Some(s)
  /\ hist' = SetLast(hist, "fetch", "ok")
  /\ pc' = "extract"
  /\ UNCHANGED <<request, start_url, max_pages, to_visit, visited, saved, current,
                 page_model, db, result>>

\* line 100, Page(...) accepted
Extract ==
  /\ pc = "extract"
  /\ PageUrlValid(current[1])
  /\ page_model' = Some(extract_info(current[1], soup[1]))
  /\ hist' = SetLast(hist, "matched",
                     extract_info(current[1], soup[1]).keywords_matched # {})
  /\ pc' = "save"
  /\ UNCHANGED <<request, start_url, max_pages, to_visit, visited, saved, current, soup,
                 db, result>>

\* line 100, Page(...) raises ValidationError, which nothing catches
ExtractRaises ==
  /\ pc = "extract"
  /\ ~PageUrlValid(current[1])
  /\ pc' = "http500"
  /\ UNCHANGED <<request, start_url, max_pages, to_visit, visited, saved, current, soup,
                 page_model, db, hist, result>>

SkipSave_SkipsLinks ==
  /\ pc = "save"
  /\ ~ShouldSave(page_model[1])
  /\ current' = None
  /\ soup' = None
  /\ page_model' = None
  /\ pc' = "loop"
  /\ UNCHANGED <<request, start_url, max_pages, to_visit, visited, saved,
                 db, hist, result>>

\* line 101 false
SkipSave ==
  /\ pc = "save"
  /\ ~ShouldSave(page_model[1])
  /\ pc' = "links"
  /\ UNCHANGED <<request, start_url, max_pages, to_visit, visited, saved, current, soup,
                 page_model, db, hist, result>>

\* line 104
SavedAfterInsert(n) == n + 1

SavedAfterRaise_Counted(n) == n + 1

\* lines 105-107: the except branch leaves saved alone
SavedAfterRaise(n) == n

\* database.create_document(collection_name, data): inserts data as one
\* new document of the collection
create_document(collection, data) == Append(collection, data)

\* lines 101-104
SaveOk ==
  /\ pc = "save"
  /\ ShouldSave(page_model[1])
  /\ db' = create_document(db, page_model[1])
  /\ saved' = SavedAfterInsert(saved)
  /\ hist' = SetLast(hist, "insert", "ok")
  /\ pc' = "links"
  /\ UNCHANGED <<request, start_url, max_pages, to_visit, visited, current, soup,
                 page_model, result>>

\* lines 101-107 with create_document raising
SaveRaises ==
  /\ pc = "save"
  /\ ShouldSave(page_model[1])
  /\ saved' = SavedAfterRaise(saved)
  /\ hist' = SetLast(hist, "insert", "raised")
  /\ pc' = "links"
  /\ UNCHANGED <<request, start_url, max_pages, to_visit, visited, current, soup,
                 page_model, db, result>>

\* lines 110-116; current, soup and page_model are rebound before they are
\* read again, so the model drops them where the iteration ends
DiscoverLinks ==
  /\ pc = "links"
  /\ to_visit' = Discover(soup[1].links, current[1], visited, to_visit)
  /\ hist' = SetLast(hist, "queued",
                     SubSeq(to_visit', Len(to_visit) + 1, Len(to_visit')))
  /\ current' = None
  /\ soup' = None
  /\ page_model' = None
  /\ pc' = "loop"
  /\ UNCHANGED <<request, start_url, max_pages, visited, saved, db, result>>

Next ==
  \/ RejectStart
  \/ BeginCrawl
  \/ Return
  \/ PopAndMark
  \/ FetchFail
  \/ FetchOk
  \/ Extract
  \/ ExtractRaises
  \/ SkipSave
  \/ SaveOk
  \/ SaveRaises
  \/ DiscoverLinks

Spec == Init /\ [][Next]_vars

Terminated == pc \in {"done", "http400", "http500"}

\* the "page" collection as an earlier POST /crawl left it: that crawl
\* fetched BASE_DOMAIN, whose text then was "Coupon", and inserted its
\* record
EarlierDb ==
  <<extract_info(BASE_DOMAIN, [text |-> <<"Coupon">>, links |-> <<>>])>>

\* a POST /crawl arriving after that crawl: storage persists, the
\* handler's locals do not
InitAgain ==
  /\ request \in {Some(r) : r \in [start_url : StartUrls, max_pages : MaxPagesValues]}
  /\ pc = "start"
  /\ start_url = None
  /\ max_pages = 0
  /\ to_visit = <<>>
  /\ visited = {}
  /\ saved = 0
  /\ current = None
  /\ soup = None
  /\ page_model = None
  /\ db = EarlierDb
  /\ hist = <<>>
  /\ result = None

SpecAgain == InitAgain /\ [][Next]_vars

\* ------------------------------------------------------------ the snippet
\* most whitespace characters around a paragraph's text, and the margin
\* around SnippetLimit of the text lengths tried
MaxPad == 2

\* line 66: [:240]
SnippetLimit == 240

\* the text of a first <p>, one character per element: l spaces, n
\* characters with a space at every seventh place, r spaces
Paragraph(l, n, r) ==
  [i \in 1..(l + n + r) |->
     IF i <= l \/ i > l + n THEN " "
     ELSE IF (i - l) % 7 = 0 THEN " "
     ELSE IF (i - l) % 2 = 1 THEN "a" ELSE "b"]

TextLengths ==
  (0..MaxPad) \cup ((SnippetLimit - MaxPad)..(SnippetLimit + MaxPad))

\* soup.find("p"): None without a <p>, else its get_text()
Paragraphs ==
  {None} \cup {Some(Paragraph(l, n, r)) :
                 l \in 0..MaxPad, n \in TextLengths, r \in 0..MaxPad}

\* s[:n]
Slice(s, n) == SubSeq(s, 1, IF Len(s) < n THEN Len(s) ELSE n)

snippet_Untruncated(p) ==
  IF p # None /\ p[1] # <<>> THEN Some(Strip(p[1])) ELSE None

\* lines 63-66
snippet(p) ==
  IF p # None /\ p[1] # <<>>
  THEN Some(Slice(Strip(p[1]), SnippetLimit))
  ELSE None

\* the handler about to call extract_info on the seed's document, whose
\* first paragraph is drawn from Paragraphs
InitSnippet ==
  /\ request = None
  /\ pc = "extract"
  /\ start_url = Some(BASE_DOMAIN)
  /\ max_pages = 1
  /\ to_visit = <<>>
  /\ visited = {BASE_DOMAIN}
  /\ saved = 0
  /\ current = Some(BASE_DOMAIN)
  /\ soup \in {Some([text |-> <<"hello">>, links |-> <<>>, p |-> para]) :
                 para \in Paragraphs}
  /\ page_model = None
  /\ db = <<>>
  /\ hist = <<[url |-> BASE_DOMAIN, fetch |-> "ok", matched |-> FALSE,
               insert |-> "none", queued |-> <<>>]>>
  /\ result = None

\* line 100 with the snippet of lines 62-66 kept in the Page
ExtractSnippet ==
  /\ pc = "extract"
  /\ PageUrlValid(current[1])
  /\ page_model' = Some([url |-> current[1],
                         keywords_matched |->
                           extract_info(current[1], soup[1]).keywords_matched,
                         snippet |-> snippet(soup[1].p)])
  /\ hist' = SetLast(hist, "matched",
                     extract_info(current[1], soup[1]).keywords_matched # {})
  /\ pc' = "save"
  /\ UNCHANGED <<request, start_url, max_pages, to_visit, visited, saved,
                 current, soup, db, result>>

SpecSnippet == InitSnippet /\ [][ExtractSnippet]_vars

\* ----------------------------------------------------------- the claims
Max0(n) == IF n < 0 THEN 0 ELSE n

Stored(u) == \E j \in 1..Len(db) : db[j].url = u

Fetched(i) == hist[i].fetch # "pending"

\* the save step of hist[i] is behind the crawl
PastSave(i) == i < Len(hist) \/ pc \in {"links", "loop", "done"}

\* C1 as stated: at every point the number of visited URLs is at most
\* max_pages, for any integer max_pages, and so is the returned count.
C1_AsStated ==
  pc \notin {"start", "http400"} =>
    /\ Cardinality(visited) <= max_pages
    /\ (result # None => result[1].visited <= max_pages)

\* C1 amended: the number of visited URLs never exceeds max(max_pages, 0),
\* and neither does the returned visited count.
C1_VisitedWithinBudget ==
  /\ Cardinality(visited) <= Max0(max_pages)
  /\ (result # None => result[1].visited <= Max0(max_pages))

\* the budget, not an empty frontier, ended a crawl of two pages
C1_Witness ==
  /\ pc = "done" /\ max_pages = 2 /\ result[1].visited = 2 /\ to_visit # <<>>

\* C2: within one crawl no URL is fetched twice: no two entries of the
\* visit history that reached fetch_page carry the same URL.
C2_FetchedAtMostOnce ==
  \A i, j \in 1..Len(hist) :
    (i < j /\ Fetched(i) /\ Fetched(j)) => hist[i].url # hist[j].url

\* a fetched page links back to a URL that was fetched before it
C2_Witness ==
  /\ pc = "links" /\ Len(hist) = 2
  /\ \E k \in 1..Len(soup[1].links) :
       urljoin(current[1], Strip(soup[1].links[k])) = hist[1].url

\* C3 as stated: saved <= visited, and a visited page is in storage iff
\* its keywords_matched is non-empty.
C3_AsStated ==
  /\ saved <= Cardinality(visited)
  /\ \A i \in 1..Len(hist) :
       (hist[i].fetch = "ok" /\ PastSave(i)) =>
         (Stored(hist[i].url) <=> hist[i].matched)

\* C3 amended: saved <= visited; a page without a keyword match is never
\* stored, and a page with a match is stored iff create_document did not
\* raise.
C3_SavedIffMatchedAndInserted ==
  /\ saved <= Cardinality(visited)
  /\ \A i \in 1..Len(hist) :
       /\ Stored(hist[i].url) => (hist[i].fetch = "ok" /\ hist[i].matched)
       /\ (hist[i].fetch = "ok" /\ PastSave(i)) =>
            (Stored(hist[i].url) <=>
               (hist[i].matched /\ hist[i].insert # "raised"))

\* one crawl stored a matching page, left a page without a match unstored,
\* and lost a matching page to a storage failure
C3_Witness ==
  /\ pc = "done"
  /\ \E i, j \in 1..Len(hist) :
       /\ hist[i].matched /\ Stored(hist[i].url)
       /\ hist[j].fetch = "ok" /\ ~hist[j].matched /\ ~Stored(hist[j].url)

\* the host of a URL that carries neither userinfo nor port is its netloc
HostOf(url) == NetlocOf(url)

\* in scope as section 4.1 has it: http or https, and the host is
\* mezzofy.com or a dotted subdomain of it
InScope(url) ==
  /\ ~ParseRaises(url)
  /\ SchemeOf(url) \in {"http", "https"}
  /\ \/ HostOf(url) = <<"mezzofy.com">>
     \/ EndsWith(HostOf(url), <<".", "mezzofy.com">>)

\* C4 as stated: the validator accepts the start URL iff its scheme is
\* http or https and its host is mezzofy.com or a dotted subdomain of it
\* (the handler answers 400 exactly when the validator returns false).
C4_AsStated ==
  pc # "start" => ((pc # "http400") <=> InScope(start_url[1]))

\* C5: a start URL the validator rejects ends the call with the 400 answer
\* at once: nothing fetched, nothing visited, nothing stored, no summary.
C5_InvalidStartFailsFast ==
  (pc # "start" /\ ~is_valid_mezzofy_url(start_url[1])) =>
    /\ pc = "http400"
    /\ hist = <<>> /\ visited = {} /\ to_visit = <<>>
    /\ db = <<>> /\ saved = 0 /\ result = None

C5_Witness == pc = "http400" /\ start_url = Some(U_external)

LastFetch(h) == h[Len(h)].fetch

\* C6: a URL is in visited before fetch_page is called on it; a failed
\* fetch leaves it visited, enqueues nothing, stores nothing and goes back
\* to the loop test; a crawl whose seed fetch fails returns visited=1 and
\* saved=0.
C6_FetchFailureIsolated ==
  /\ [](\A i \in 1..Len(hist) : hist[i].url \in visited)
  /\ [](pc = "fetch" => (current[1] \in visited /\ LastFetch(hist) = "pending"))
  /\ [][(pc = "fetch" /\ LastFetch(hist') = "failed") =>
          /\ visited' = visited /\ to_visit' = to_visit
          /\ db' = db /\ saved' = saved /\ pc' = "loop"]_vars
  /\ []((Terminated /\ hist # <<>> /\ hist[1].fetch = "failed") =>
          (pc = "done" /\ result = Some([visited |-> 1, saved |-> 0])))

\* the seed's fetch failed and the crawl returned
C6_Witness ==
  /\ pc = "done" /\ max_pages >= 1
  /\ Len(hist) = 1 /\ hist[1].fetch = "failed"
  /\ result = Some([visited |-> 1, saved |-> 0])

\* C7: when create_document raises the crawl goes on to link discovery
\* with saved and the collection unchanged, and saved is always the
\* number of inserts that succeeded.
C7_StorageFailureSwallowed ==
  /\ [](saved = Len(db))
  /\ [](saved = Cardinality({i \in 1..Len(hist) : hist[i].insert = "ok"}))
  /\ [][(pc = "save" /\ hist'[Len(hist')].insert = "raised") =>
          (pc' = "links" /\ saved' = saved /\ db' = db)]_vars
  /\ [][(pc = "links" /\ hist[Len(hist)].insert = "raised") =>
          (pc' = "loop" /\ to_visit' =
             Discover(soup[1].links, current[1], visited, to_visit))]_vars

\* the insert of the seed raised, its link was still followed, and the
\* crawl returned with nothing saved
C7_Witness ==
  /\ pc = "done" /\ Len(hist) = 2
  /\ hist[1].insert = "raised" /\ hist[1].queued # <<>>
  /\ hist[2].fetch = "ok" /\ result[1].saved = 0

\* C8 as stated: once the start URL is accepted no failure tied to one URL
\* ends the call with an error.
C8_AsStated == pc # "http500"

\* an upper bound on the steps the handler still has to take
Rank ==
  LET left == Max0(max_pages - Cardinality(visited))
  IN  CASE pc = "start" -> 2 + 5 * Max0(request[1].max_pages)
        [] pc = "loop" -> 1 + 5 * left
        [] pc = "links" -> 2 + 5 * left
        [] pc = "save" -> 3 + 5 * left
        [] pc = "extract" -> 4 + 5 * left
        [] pc = "fetch" -> 5 + 5 * left
        [] OTHER -> 0

ExitCondition == to_visit = <<>> \/ Cardinality(visited) >= max_pages

\* C9: a crawl terminates: every step lowers Rank, which never goes below
\* zero, and only a finished call has no next step.  The handler returns
\* exactly when, at the loop test, to_visit is empty or visited has reached
\* max_pages, and the summary is the visited count and the saved count.
C9_TerminatesAndReturns ==
  /\ [][Rank' < Rank]_vars
  /\ [](Rank >= 0)
  /\ [](Terminated \/ ENABLED Next)
  /\ [][(pc = "loop" /\ ExitCondition) => pc' = "done"]_vars
  /\ [][pc' = "done" => (pc = "loop" /\ ExitCondition)]_vars
  /\ [](pc = "done" =>
          /\ ExitCondition
          /\ result = Some([visited |-> Cardinality(visited), saved |-> saved])
          /\ Cardinality(visited) = Len(hist)
          /\ saved = Len(db))

\* a crawl returned with its budget used up, another link still queued
C9_Witness ==
  /\ pc = "done" /\ Cardinality(visited) = max_pages /\ max_pages = 2
  /\ to_visit # <<>> /\ result = Some([visited |-> 2, saved |-> 1])

\* the seed of the end-to-end scenario: text with "pricing" and "coupon",
\* a link to /features and a link to https://external.com
ScenarioSoup ==
  [text |-> <<"Mezzofy", "Pricing", "coupon">>,
   links |-> <<<<"/", "features">>, U_external>>]

AllValid ==
  /\ \A i \in 1..Len(to_visit) : is_valid_mezzofy_url(to_visit[i])
  /\ \A u \in visited : is_valid_mezzofy_url(u)
  /\ \A i \in 1..Len(hist) : is_valid_mezzofy_url(hist[i].url)

ScenarioLinksStep ==
  (pc = "links" /\ current = Some(BASE_DOMAIN) /\ soup = Some(ScenarioSoup)
     /\ Len(hist) = 1)
  => to_visit' = <<U_features>>

ScenarioRun ==
  /\ start_url = Some(BASE_DOMAIN) /\ max_pages = 2 /\ pc = "done"
  /\ hist[1].matched /\ hist[1].queued = <<U_features>>

AfterBegin(u, n) ==
  <<None, "loop", Some(u), n, <<u>>, {}, 0, None, None, None, db, hist, result>>

\* C11: a request whose start_url is unspecified or empty is seeded with
\* BASE_DOMAIN, is accepted, and leaves the handler in the very state a
\* request naming BASE_DOMAIN leaves it in.
C11_DefaultSeed ==
  [][pc = "start" =>
       /\ ~Truthy(request[1].start_url) =>
            vars' = AfterBegin(BASE_DOMAIN, request[1].max_pages)
       /\ request[1].start_url = Some(BASE_DOMAIN) =>
            vars' = AfterBegin(BASE_DOMAIN, request[1].max_pages)]_vars

\* an empty start_url is about to seed the crawl with BASE_DOMAIN
C11_Witness ==
  /\ pc = "start" /\ request[1].start_url = Some(<<>>)
  /\ ENABLED (BeginCrawl /\ to_visit' = <<BASE_DOMAIN>>
                         /\ start_url' = Some(BASE_DOMAIN))

RECURSIVE Flatten(_)
Flatten(ss) == IF ss = <<>> THEN <<>> ELSE Head(ss) \o Flatten(Tail(ss))

\* the URLs of the crawl in the order they were first put in to_visit
EnqueueOrder ==
  IF start_url = None THEN <<>>
  ELSE start_url \o Flatten([i \in 1..Len(hist) |-> hist[i].queued])

\* C12: URLs are fetched in the order of their first discovery: the i-th
\* URL taken from to_visit is the i-th URL ever enqueued, the seed first,
\* and at the loop test to_visit holds the rest in enqueue order.
C12_FifoOrder ==
  (pc \notin {"start", "http400"}) =>
    /\ Len(hist) <= Len(EnqueueOrder)
    /\ \A i \in 1..Len(hist) : hist[i].url = EnqueueOrder[i]
    /\ pc = "loop" =>
         to_visit = SubSeq(EnqueueOrder, Len(hist) + 1, Len(EnqueueOrder))

\* the seed enqueued two URLs and the first of them was fetched next
C12_Witness ==
  /\ Len(hist) = 2 /\ Len(hist[1].queued) = 2 /\ Fetched(2)
  /\ hist[2].url = hist[1].queued[1] /\ to_visit # <<>>

NoDuplicates(q) == \A i, j \in 1..Len(q) : i # j => q[i] # q[j]

\* href, stripped, is fragment-only or a mailto: link
FragmentOrMailto(href) ==
  LET h == Strip(href) IN h # <<>> /\ h[1] \in {"#top", "mailto:"}

\* the absolute URLs of the anchors of the page being processed that are
\* neither fragment-only nor mailto: links
Targets ==
  {urljoin(current[1], Strip(soup[1].links[k])) :
     k \in {j \in 1..Len(soup[1].links) : ~FragmentOrMailto(soup[1].links[j])}}

Appended == SubSeq(to_visit', Len(to_visit) + 1, Len(to_visit'))

InSeq(q, u) == \E i \in 1..Len(q) : q[i] = u

\* link discovery appends exactly the targets that pass the validator and
\* are neither visited nor queued, each once
AppendsExactlyNewValidTargets ==
  /\ SubSeq(to_visit', 1, Len(to_visit)) = to_visit
  /\ NoDuplicates(Appended)
  /\ \A u \in Targets :
       InSeq(Appended, u) <=>
         (is_valid_mezzofy_url(u) /\ u \notin visited /\ ~InSeq(to_visit, u))
  /\ \A i \in 1..Len(Appended) : Appended[i] \in Targets

\* C13: for the hrefs of a fetched page other than fragment-only and
\* mailto: ones, the resolved URL is appended to to_visit iff it passes the
\* validator and is neither visited nor queued; to_visit never holds a URL
\* twice.
C13_IdempotentEnqueue ==
  /\ []NoDuplicates(to_visit)
  /\ [][pc = "links" => AppendsExactlyNewValidTargets]_vars

\* a page with a fragment link and the same new link twice is about to
\* enqueue that link once
C13_Witness ==
  /\ pc = "links" /\ current = Some(BASE_DOMAIN) /\ to_visit = <<>>
  /\ \E k \in 1..Len(soup[1].links) : FragmentOrMailto(soup[1].links[k])
  /\ \E k \in 1..Len(soup[1].links) : soup[1].links[k] = <<"/", "features">>
  /\ ENABLED (DiscoverLinks /\ to_visit' = <<U_features>>)

\* C14: a fetched page without a keyword match goes on to link discovery
\* with to_visit untouched, and its links are enqueued by the rule of C13.
C14_TraversalNotGated ==
  /\ [][(pc = "save" /\ page_model[1].keywords_matched = {}) =>
          (pc' = "links" /\ to_visit' = to_visit /\ db' = db
           /\ soup' = soup /\ current' = current)]_vars
  /\ [][(pc = "links" /\ ~hist[Len(hist)].matched) =>
          AppendsExactlyNewValidTargets]_vars

\* a page without a keyword match enqueued a link that was then fetched
C14_Witness ==
  /\ Len(hist) = 2 /\ hist[1].fetch = "ok" /\ ~hist[1].matched
  /\ db = <<>> /\ hist[1].queued # <<>>
  /\ hist[2].url = hist[1].queued[1] /\ hist[2].fetch = "ok"

Disjoint(q, vis) == \A i \in 1..Len(q) : q[i] \notin vis

\* C18: to_visit and visited are disjoint in every reachable state of the
\* loop, so the popped URL is never already visited (the branch of lines
\* 91-92 is never taken), and each iteration adds exactly one URL to
\* visited, at the pop, and none afterwards.
C18_QueueVisitedDisjoint ==
  /\ []Disjoint(to_visit, visited)
  /\ [][(pc = "loop" /\ pc' # "done") =>
          /\ Head(to_visit) \notin visited
          /\ pc' = "fetch"
          /\ visited' = visited \cup {Head(to_visit)}
          /\ Cardinality(visited') = Cardinality(visited) + 1]_vars
  /\ [][(pc \in {"fetch", "extract", "save", "links"}) =>
          visited' = visited]_vars

\* the second page links back to the visited seed while another URL
\* waits in to_visit, and the link is about to be left out
C18_Witness ==
  /\ pc = "links" /\ Len(hist) = 2 /\ to_visit # <<>>
  /\ hist[1].url \in visited
  /\ \A k \in 1..Len(soup[1].links) :
       urljoin(current[1], Strip(soup[1].links[k])) = hist[1].url
  /\ soup[1].links # <<>>
  /\ ENABLED (DiscoverLinks /\ to_visit' = to_visit)

Range(q) == {q[i] : i \in 1..Len(q)}

\* the seed and the URLs the successfully fetched pages of this crawl
\* put in to_visit
Reached ==
  Range(start_url) \cup
  UNION {Range(hist[i].queued) : i \in {j \in 1..Len(hist) : hist[j].fetch = "ok"}}

\* every in-scope link target of the page being processed is visited or
\* queued once its links are handled
TargetsCovered ==
  \A u \in Targets :
    is_valid_mezzofy_url(u) => (u \in visited' \/ InSeq(to_visit', u))

C20_NonPositiveBudget ==
  (pc \notin {"start", "http400"} /\ max_pages <= 0) =>
    /\ pc \in {"loop", "done"}
    /\ hist = <<>> /\ visited = {} /\ db = <<>> /\ saved = 0
    /\ pc = "done" => result = Some([visited |-> 0, saved |-> 0])

\* a crawl with max_pages = 0 has returned
C20_Witness ==
  /\ pc = "done" /\ max_pages = 0 /\ start_url = Some(BASE_DOMAIN)
  /\ result = Some([visited |-> 0, saved |-> 0])

IsPrefix(p, q) == Len(p) <= Len(q) /\ SubSeq(q, 1, Len(p)) = p

\* the records the running crawl has inserted, under SpecAgain
Inserted == SubSeq(db, Len(EarlierDb) + 1, Len(db))

\* C15: the crawler only inserts: every step leaves the stored records
\* as they are or adds one at the end, records of an earlier crawl
\* included, and the records one crawl inserts have pairwise different
\* URLs.
C15_AppendOnly ==
  /\ [][IsPrefix(db, db') /\ Len(db') <= Len(db) + 1]_vars
  /\ [][(pc = "save" /\ saved' # saved) => db' = Append(db, page_model[1])]_vars
  /\ [](IsPrefix(EarlierDb, db))
  /\ [](\A i, j \in 1..Len(Inserted) :
          i # j => Inserted[i].url # Inserted[j].url)

\* the crawl has inserted two records after the earlier one, one of them
\* for the URL the earlier record has
C15_Witness ==
  /\ Len(Inserted) = 2 /\ IsPrefix(EarlierDb, db)
  /\ Inserted[1].url = EarlierDb[1].url

CountUrl(u) == Cardinality({j \in 1..Len(db) : db[j].url = u})

\* C16: to_visit and visited belong to one invocation: a crawl starts
\* with to_visit = [start URL] and visited empty whatever storage holds,
\* so a URL an earlier crawl stored is fetched again, and each successful
\* insert of this crawl is a further record next to the earlier one.
C16_InvocationScoped ==
  /\ [][(pc = "start" /\ pc' = "loop") =>
          (to_visit' = start_url' /\ visited' = {} /\ db' = db)]_vars
  /\ []((pc = "done" /\ max_pages >= 1) =>
          (hist # <<>> /\ hist[1].url = start_url[1] /\ Fetched(1)))
  /\ [](\A i \in 1..Len(hist) :
          (hist[i].insert = "ok" /\ hist[i].url = EarlierDb[1].url) =>
            (hist[i].fetch = "ok" /\ CountUrl(hist[i].url) = 2))

\* the URL the earlier crawl stored was fetched again and stored as a
\* second record
C16_Witness ==
  /\ pc = "done" /\ start_url = Some(EarlierDb[1].url) /\ hist # <<>>
  /\ hist[1].fetch = "ok" /\ hist[1].insert = "ok"
  /\ CountUrl(EarlierDb[1].url) = 2 /\ Len(db) = 2

\* t without its leading and trailing spaces
Trimmed(t) ==
  LET inner == {i \in 1..Len(t) : t[i] # " "}
  IN  IF inner = {} THEN <<>>
      ELSE SubSeq(t, CHOOSE a \in inner : \A i \in inner : a <= i,
                     CHOOSE b \in inner : \A i \in inner : b >= i)

\* C17: the snippet of an extracted page, when present, has at most 240
\* characters and is a prefix of the trimmed text of the first paragraph,
\* the longest such prefix; it is absent when the document has no
\* paragraph or the paragraph's text is empty.
C17_SnippetBounded ==
  pc = "save" =>
    LET sn == page_model[1].snippet
        p == soup[1].p
    IN  /\ sn # None =>
             /\ p # None
             /\ Len(sn[1]) <= 240
             /\ IsPrefix(sn[1], Trimmed(p[1]))
             /\ Len(sn[1]) = 240 \/ sn[1] = Trimmed(p[1])
        /\ (p = None \/ p[1] = <<>>) => sn = None

\* a padded paragraph of more than 240 characters was cut to 240
C17_Witness ==
  /\ pc = "save" /\ page_model[1].snippet # None
  /\ Len(Trimmed(soup[1].p[1])) > 240 /\ soup[1].p[1][1] = " "
  /\ Len(page_model[1].snippet[1]) = 240

====
